---- MODULE Spec2Model ----
(***************************************************************************)
(* Model of the NutriApp backend (src/app.py): the health metrics          *)
(* calculator calculate_profile_data, the calorie extractor                *)
(* extract_total_calories, and the request handlers register, login,       *)
(* update_profile, get_profile, analyze and get_history over the three     *)
(* SQLite tables users, image_history and ingredient_history.              *)
(*                                                                         *)
(* Representation.                                                         *)
(*  - A Python str is a sequence of one-character strings.                 *)
(*  - A nullable value is None (the empty tuple) or Some(v) (a 1-tuple).   *)
(*  - weight and height are whole numbers of kg and cm; BMI is kept in     *)
(*    hundredths (imc = 2286 stands for 22.86), which is exactly the       *)
(*    two-decimal value round(x, 2) returns.  The arithmetic is exact      *)
(*    rational arithmetic with round-half-even; on the input sets below    *)
(*    it gives the same results as the double arithmetic of the source.    *)
(***************************************************************************)
EXTENDS Integers, Sequences, FiniteSets, TLC

VARIABLES
    user_data,          \* calculator: the dict passed to calculate_profile_data
    calc_result,        \* calculator: outcome of the call (return value or raised error)
    calc_pc,            \* calculator: "idle" | "start" | "done"
    text,               \* extractor: the text passed to extract_total_calories
    extracted,          \* extractor: outcome of the call
    ext_pc,             \* extractor: "idle" | "start" | "done"
    users,              \* table users, in rowid order
    image_history,      \* table image_history, in rowid order
    ingredient_history, \* table ingredient_history, in rowid order
    inflight,           \* analyze requests waiting for the AI call or holding its text
    last                \* the last request answered and its response

vars == <<user_data, calc_result, calc_pc, text, extracted, ext_pc,
          users, image_history, ingredient_history, inflight, last>>

calcVars == <<user_data, calc_result, calc_pc>>
extVars == <<text, extracted, ext_pc>>
serverVars == <<users, image_history, ingredient_history, inflight, last>>

-----------------------------------------------------------------------------
(* Python values *)

None == <<>>
Some(v) == <<v>>
Val(x) == x[1]

UpperChars == <<"A","B","C","D","E","F","G","H","I","J","K","L","M","N","O","P","Q","R","S","T","U","V","W","X","Y","Z","Í">>
LowerChars == <<"a","b","c","d","e","f","g","h","i","j","k","l","m","n","o","p","q","r","s","t","u","v","w","x","y","z","í">>

\* str.lower() on one character
LowerChar(c) ==
    IF \E i \in DOMAIN UpperChars : UpperChars[i] = c
    THEN LowerChars[CHOOSE i \in DOMAIN UpperChars : UpperChars[i] = c]
    ELSE c

\* str.lower()
Lower(s) == [i \in DOMAIN s |-> LowerChar(s[i])]

\* round(): nearest integer of n/d (d > 0), ties to the even neighbour
RoundHalfEven(n, d) ==
    LET q == n \div d
        r == n % d
    IN  IF 2 * r < d THEN q
        ELSE IF 2 * r > d THEN q + 1
        ELSE IF q % 2 = 0 THEN q ELSE q + 1

-----------------------------------------------------------------------------
(* calculate_profile_data *)

s_masculino == <<"m","a","s","c","u","l","i","n","o">>
s_Masculino == <<"M","a","s","c","u","l","i","n","o">>
s_MASCULINO == <<"M","A","S","C","U","L","I","N","O">>
s_femenino == <<"f","e","m","e","n","i","n","o">>
s_Femenino == <<"F","e","m","e","n","i","n","o">>
s_otro == <<"o","t","r","o">>
s_sedentario == <<"s","e","d","e","n","t","a","r","i","o">>
s_ligero == <<"l","i","g","e","r","o">>
s_moderado == <<"m","o","d","e","r","a","d","o">>
s_Moderado == <<"M","o","d","e","r","a","d","o">>
s_activo == <<"a","c","t","i","v","o">>
s_muy_activo == <<"m","u","y"," ","a","c","t","i","v","o">>
s_MUY_ACTIVO == <<"M","U","Y"," ","A","C","T","I","V","O">>
s_flying == <<"f","l","y","i","n","g">>

ProfileKeys == {"weight", "height", "age", "gender", "activity_level"}

\* outcomes of a call
Return(v) == [exc |-> "", value |-> v]
Raise(e) == [exc |-> e]

Incomplete == [imc |-> None, tdee |-> None, imc_recommendation |-> "Completa tu perfil"]

\* the multipliers in thousandths
activity_multipliers ==
    [k \in {s_sedentario, s_ligero, s_moderado, s_activo, s_muy_activo} |->
        CASE k = s_sedentario -> 1200
          [] k = s_ligero -> 1375
          [] k = s_moderado -> 1550
          [] k = s_activo -> 1725
          [] k = s_muy_activo -> 1900]

\* Multiplier without the .lower() of the key
Multiplier_CaseSensitive(activity_level) ==
    IF activity_level \in DOMAIN activity_multipliers
    THEN activity_multipliers[activity_level]
    ELSE 1200

\* activity_multipliers.get(activity_level.lower(), 1.2), in thousandths
Multiplier(activity_level) ==
    IF Lower(activity_level) \in DOMAIN activity_multipliers
    THEN activity_multipliers[Lower(activity_level)]
    ELSE 1200

\* the Mifflin-St Jeor branch, in quarters of a kcal
Bmr4(weight, height, age, gender) ==
    IF Lower(gender) = s_masculino
    THEN 40 * weight + 25 * height - 20 * age + 20
    ELSE 40 * weight + 25 * height - 20 * age - 644

\* Recommendation with the boundaries on the other side (<= 18.5, <= 25, <= 30)
Recommendation_ClosedAbove(imc) ==
    IF imc <= 1850 THEN "Bajo peso"
    ELSE IF imc <= 2500 THEN "Peso saludable"
    ELSE IF imc <= 3000 THEN "Sobrepeso"
    ELSE "Obesidad"

\* the if/elif chain over the rounded BMI (in hundredths)
Recommendation(imc) ==
    IF imc < 1850 THEN "Bajo peso"
    ELSE IF 1850 <= imc /\ imc < 2500 THEN "Peso saludable"
    ELSE IF 2500 <= imc /\ imc < 3000 THEN "Sobrepeso"
    ELSE "Obesidad"

\* all(key in user_data and user_data[key] is not None for key in [...])
AllPresent(ud) ==
    \A key \in ProfileKeys : key \in DOMAIN ud /\ ud[key] # None

calculate_profile_data(ud) ==
    IF ~AllPresent(ud) THEN Return(Incomplete)
    ELSE
      LET weight == Val(ud["weight"])
          height == Val(ud["height"])
          age == Val(ud["age"])
          gender == Val(ud["gender"])
          activity_level == Val(ud["activity_level"])
      IN  IF height * height = 0 THEN Raise("ZeroDivisionError")
          ELSE
            LET imc == RoundHalfEven(weight * 1000000, height * height)
                bmr == Bmr4(weight, height, age, gender)
                multiplier == Multiplier(activity_level)
                tdee == RoundHalfEven(bmr * multiplier, 4000)
            IN  Return([imc |-> Some(imc), tdee |-> Some(tdee),
                        imc_recommendation |-> Recommendation(imc)])

-----------------------------------------------------------------------------
(* Calculator harness: every profile over the sets below, each key absent, *)
(* null or set.                                                            *)

Weights == {-5, 0, 45, 54, 70, 74, 100, 106, 120}
Heights == {-175, 0, 147, 156, 175, 188, 200}
Ages == {0, 30, 80}
Genders == {s_masculino, s_Masculino, s_MASCULINO, s_femenino, s_Femenino, s_otro, <<>>}
Activities == {s_sedentario, s_ligero, s_moderado, s_Moderado, s_activo,
               s_muy_activo, s_MUY_ACTIVO, s_flying, <<>>}

Nullable(S) == {None} \cup {Some(v) : v \in S}

FullProfiles ==
    [weight : Nullable(Weights), height : Nullable(Heights), age : Nullable(Ages),
     gender : Nullable(Genders), activity_level : Nullable(Activities)]

NoResult == [exc |-> "pending"]

CalcIdle ==
    /\ user_data = <<>>
    /\ calc_result = NoResult
    /\ calc_pc = "idle"

ExtIdle ==
    /\ text = <<>>
    /\ extracted = NoResult
    /\ ext_pc = "idle"

ServerEmpty ==
    /\ users = <<>>
    /\ image_history = <<>>
    /\ ingredient_history = <<>>
    /\ inflight = <<>>
    /\ last = [op |-> "none"]

InitCalc ==
    /\ \E present \in SUBSET ProfileKeys : \E full \in FullProfiles :
           user_data = [k \in present |-> full[k]]
    /\ calc_result = NoResult
    /\ calc_pc = "start"
    /\ ExtIdle
    /\ ServerEmpty

Compute ==
    /\ calc_pc = "start"
    /\ calc_result' = calculate_profile_data(user_data)
    /\ calc_pc' = "done"
    /\ UNCHANGED <<user_data, extVars, serverVars>>

NextCalc == Compute

SpecCalc == InitCalc /\ [][NextCalc]_vars

-----------------------------------------------------------------------------
(* extract_total_calories *)

\* the literal part of the pattern r"Total Calorías:\s*(\d+)"
Label == <<"T","o","t","a","l"," ","C","a","l","o","r","í","a","s",":">>

Digits == <<"0","1","2","3","4","5","6","7","8","9">>

\* \d
IsDigit(c) == \E i \in DOMAIN Digits : Digits[i] = c

DigitValue(c) == (CHOOSE i \in DOMAIN Digits : Digits[i] = c) - 1

\* \s
IsSpace(c) == c \in {" ", "\t", "\n", "\r", "\f"}

\* CharMatches without re.IGNORECASE
CharMatches_CaseSensitive(p, c) == p = c

\* a literal pattern character against a text character under re.IGNORECASE
CharMatches(p, c) == LowerChar(p) = LowerChar(c)

\* the literal part of the pattern matches t at position i
LabelAt(t, i) ==
    /\ i + Len(Label) - 1 <= Len(t)
    /\ \A k \in DOMAIN Label : CharMatches(Label[k], t[i + k - 1])

\* \s* (greedy): the first position at or after j that holds no whitespace
RECURSIVE SkipSpaces(_, _)
SkipSpaces(t, j) ==
    IF j <= Len(t) /\ IsSpace(t[j]) THEN SkipSpaces(t, j + 1) ELSE j

\* \d+ (greedy): the first position at or after j that holds no digit
RECURSIVE SkipDigits(_, _)
SkipDigits(t, j) ==
    IF j <= Len(t) /\ IsDigit(t[j]) THEN SkipDigits(t, j + 1) ELSE j

\* the pattern matched at position i: group(1), or None
MatchAt(t, i) ==
    IF ~LabelAt(t, i) THEN None
    ELSE LET j == SkipSpaces(t, i + Len(Label))
             k == SkipDigits(t, j)
         IN  IF k > j THEN Some(SubSeq(t, j, k - 1)) ELSE None

\* re.search: the match at the leftmost position at or after i, or None
RECURSIVE Search(_, _)
Search(t, i) ==
    IF i > Len(t) THEN None
    ELSE IF MatchAt(t, i) # None THEN MatchAt(t, i)
    ELSE Search(t, i + 1)

\* int() of a digit string
RECURSIVE IntOf(_)
IntOf(d) ==
    IF d = <<>> THEN 0
    ELSE 10 * IntOf(SubSeq(d, 1, Len(d) - 1)) + DigitValue(d[Len(d)])

extract_total_calories(t) ==
    LET match == Search(t, 1)
    IN  IF match # None THEN IntOf(Val(match)) ELSE 0

-----------------------------------------------------------------------------
(* Extractor harness: every text made of at most MaxFragments fragments,   *)
(* and the three example texts.                                            *)

MaxFragments == 4

t_total_450 == <<"T","o","t","a","l"," ","C","a","l","o","r","í","a","s",":"," ","4","5","0","\n">>
t_no_mention == <<"n","o"," ","m","e","n","t","i","o","n"," ","h","e","r","e">>
t_total_12 == <<"t","o","t","a","L"," ","c","a","l","o","r","í","a","s",":"," "," "," ","1","2"," ","k","c","a","l">>

ExampleTexts == {t_total_450, t_no_mention, t_total_12}

Fragments ==
    { Label,
      <<"T","O","T","A","L"," ","C","A","L","O","R","Í","A","S",":">>,
      <<"T","o","t","a","l"," ","C","a","l","o","r","í","a","s">>,
      <<"T","o","t","a","l"," ","C","a","l","o","r","í","a","s",";">>,
      <<" ">>, <<"4","5">>, <<"0">>, <<" ","k","c","a","l">> }

RECURSIVE Flatten(_)
Flatten(fs) == IF fs = <<>> THEN <<>> ELSE Head(fs) \o Flatten(Tail(fs))

Texts ==
    ExampleTexts \cup
    UNION { {Flatten(fs) : fs \in [1..n -> Fragments]} : n \in 0..MaxFragments }

InitExtract ==
    /\ text \in Texts
    /\ extracted = NoResult
    /\ ext_pc = "start"
    /\ CalcIdle
    /\ ServerEmpty

Extract ==
    /\ ext_pc = "start"
    /\ extracted' = Return(extract_total_calories(text))
    /\ ext_pc' = "done"
    /\ UNCHANGED <<text, calcVars, serverVars>>

NextExtract == Extract

SpecExtract == InitExtract /\ [][NextExtract]_vars

-----------------------------------------------------------------------------
(* The tables.  A row is a function from column names to nullable values.  *)
(* The id column of a history row is its position in the sequence (rowid   *)
(* order); the timestamp column is not modelled.                           *)

UserColumns == {"id", "email", "name", "password_hash", "age", "weight", "height",
                "gender", "activity_level"}

\* columns declared NOT NULL in CREATE TABLE users
UserNotNull == {"email", "name", "password_hash"}

\* a value as the request carries it: the value of key k, or None when k is missing
Get(data, k) == IF k \in DOMAIN data THEN data[k] ELSE None

\* "not x" for a nullable number and for a nullable string
FalsyNum(x) == x = None \/ x = Some(0)
FalsyStr(x) == x = None \/ x = Some("")

\* dict.pop(k): the dict without key k
Without(data, k) == [c \in DOMAIN data \ {k} |-> data[c]]

\* generate_password_hash / check_password_hash
generate_password_hash(password) == <<"hash", password>>
check_password_hash(pwhash, password) == pwhash = <<"hash", password>>

\* UsersConstraintsHold for a schema whose email column is not UNIQUE
UsersConstraintsHold_NoUnique(tbl) ==
    /\ \A i \in DOMAIN tbl : \A c \in UserNotNull : tbl[i][c] # None
    /\ \A i, j \in DOMAIN tbl : tbl[i]["id"] = tbl[j]["id"] => i = j

\* the UNIQUE and NOT NULL constraints of table users
UsersConstraintsHold(tbl) ==
    /\ \A i \in DOMAIN tbl : \A c \in UserNotNull : tbl[i][c] # None
    /\ \A i, j \in DOMAIN tbl : tbl[i]["email"] = tbl[j]["email"] => i = j
    /\ \A i, j \in DOMAIN tbl : tbl[i]["id"] = tbl[j]["id"] => i = j

\* INSERT INTO users (email, name, password_hash) VALUES (?, ?, ?)
InsertUser(tbl, email, name, password_hash) ==
    LET row == [c \in UserColumns |->
                   CASE c = "id" -> Some(Len(tbl) + 1)
                     [] c = "email" -> email
                     [] c = "name" -> name
                     [] c = "password_hash" -> Some(password_hash)
                     [] OTHER -> None]
        new == Append(tbl, row)
    IN  IF UsersConstraintsHold(new) THEN Return(new) ELSE Raise("IntegrityError")

\* UPDATE users SET <key = ?, ...> WHERE id = ?
UpdateUser(tbl, patch, user_id) ==
    LET new == [i \in DOMAIN tbl |->
                   IF tbl[i]["id"] = Some(user_id)
                   THEN [c \in UserColumns |-> IF c \in DOMAIN patch THEN patch[c] ELSE tbl[i][c]]
                   ELSE tbl[i]]
    IN  IF DOMAIN patch = {} THEN Raise("OperationalError")
        ELSE IF ~(DOMAIN patch \subseteq UserColumns) THEN Raise("OperationalError")
        ELSE IF ~UsersConstraintsHold(new) THEN Raise("IntegrityError")
        ELSE Return(new)

\* SelectUserById without its WHERE clause
SelectUserById_AnyRow(tbl, user_id) ==
    IF tbl # <<>> THEN Some(tbl[1]) ELSE None

\* SELECT * FROM users WHERE id = ?  (fetchone)
SelectUserById(tbl, user_id) ==
    IF \E i \in DOMAIN tbl : tbl[i]["id"] = Some(user_id)
    THEN Some(tbl[CHOOSE i \in DOMAIN tbl : tbl[i]["id"] = Some(user_id)])
    ELSE None

\* SELECT * FROM users WHERE email = ?  (fetchone)
SelectUserByEmail(tbl, email) ==
    IF \E i \in DOMAIN tbl : tbl[i]["email"] = email
    THEN Some(tbl[CHOOSE i \in DOMAIN tbl : tbl[i]["email"] = email])
    ELSE None

\* InsertHistory as INSERT OR REPLACE over the whole table
InsertHistory_Replace(tbl, row) == <<row>>

\* INSERT INTO image_history / ingredient_history (...) VALUES (?, ?, ?, ?)
InsertHistory(tbl, row) == Append(tbl, row)

\* SELECT * FROM <history> WHERE user_id = ?
SelectHistory(tbl, user_id) == {tbl[i] : i \in {j \in DOMAIN tbl : tbl[j].user_id = Some(user_id)}}

-----------------------------------------------------------------------------
(* Request handlers *)

register(data) ==
    /\ IF ~({"email", "password", "name"} \subseteq DOMAIN data)
       THEN /\ last' = [op |-> "register", req |-> data, status |-> 400]
            /\ UNCHANGED users
       ELSE LET password_hash == generate_password_hash(data["password"])
                res == InsertUser(users, data["email"], data["name"], password_hash)
            IN  IF res.exc = ""
                THEN /\ users' = res.value
                     /\ last' = [op |-> "register", req |-> data, status |-> 201]
                ELSE /\ last' = [op |-> "register", req |-> data, status |-> 409]
                     /\ UNCHANGED users
    /\ UNCHANGED <<image_history, ingredient_history, inflight, calcVars, extVars>>

login(data) ==
    /\ LET user == SelectUserByEmail(users, data["email"])
       IN  IF user # None /\ check_password_hash(Val(Val(user)["password_hash"]), data["password"])
           THEN last' = [op |-> "login", req |-> data, status |-> 200,
                         body |-> Without(Val(user), "password_hash")]
           ELSE last' = [op |-> "login", req |-> data, status |-> 401]
    /\ UNCHANGED <<users, image_history, ingredient_history, inflight, calcVars, extVars>>

update_profile(data) ==
    /\ LET user_id == Get(data, "userId")
           patch == Without(data, "userId")
       IN  IF FalsyNum(user_id)
           THEN /\ last' = [op |-> "update_profile", req |-> data, status |-> 400]
                /\ UNCHANGED users
           ELSE LET res == UpdateUser(users, patch, Val(user_id))
                IN  IF res.exc = ""
                    THEN /\ users' = res.value
                         /\ last' = [op |-> "update_profile", req |-> data, status |-> 200]
                    ELSE /\ last' = [op |-> "update_profile", req |-> data, status |-> 500]
                         /\ UNCHANGED users
    /\ UNCHANGED <<image_history, ingredient_history, inflight, calcVars, extVars>>

get_profile(user_id) ==
    /\ LET user == SelectUserById(users, user_id)
       IN  IF user = None
           THEN last' = [op |-> "get_profile", user_id |-> user_id, status |-> 404]
           ELSE LET row == Without(Val(user), "password_hash")
                    health_data == calculate_profile_data(row)
                IN  IF health_data.exc = ""
                    THEN last' = [op |-> "get_profile", user_id |-> user_id, status |-> 200,
                                  body |-> [k \in DOMAIN row \cup DOMAIN health_data.value |->
                                               IF k \in DOMAIN health_data.value
                                               THEN health_data.value[k] ELSE row[k]]]
                    ELSE last' = [op |-> "get_profile", user_id |-> user_id, status |-> 500]
    /\ UNCHANGED <<users, image_history, ingredient_history, inflight, calcVars, extVars>>

get_history(user_id) ==
    /\ last' = [op |-> "get_history", user_id |-> user_id, status |-> 200,
                body |-> [imageHistory |-> SelectHistory(image_history, user_id),
                          ingredientHistory |-> SelectHistory(ingredient_history, user_id)]]
    /\ UNCHANGED <<users, image_history, ingredient_history, inflight, calcVars, extVars>>

-----------------------------------------------------------------------------
(* analyze.  The handler blocks in get_gemini_response while other         *)
(* requests are served, so it is modelled in steps: analyze_request runs   *)
(* the handler up to the AI call; analyze_ai_raises and analyze_complete   *)
(* are the two outcomes of get_gemini_response, each with the rest of the  *)
(* handler.                                                                *)

MaxInflight == 1
MaxHistory == 2

\* images that base64.b64decode and Image.open accept
DecodableImages == {"img_ok"}

RemoveAt(seq, i) == [j \in 1..(Len(seq) - 1) |-> IF j < i THEN seq[j] ELSE seq[j + 1]]

AnalyzeError(status, error) == [op |-> "analyze", status |-> status, error |-> error]

analyze_request(data) ==
    /\ LET user_id == Get(data, "userId")
           analysis_type == Get(data, "analysisType")
       IN  IF FalsyNum(user_id) \/ FalsyStr(analysis_type)
           THEN /\ last' = AnalyzeError(400, "Faltan userId o analysisType")
                /\ UNCHANGED inflight
           ELSE IF "image" \in DOMAIN data
           THEN IF data["image"] = None \/ Val(data["image"]) \notin DecodableImages
                THEN /\ last' = AnalyzeError(500, "image")
                     /\ UNCHANGED inflight
                ELSE /\ Len(inflight) < MaxInflight
                     /\ inflight' = Append(inflight,
                            [kind |-> "image", user_id |-> user_id,
                             analysis_type |-> Val(analysis_type), ingredients |-> None])
                     /\ UNCHANGED last
           ELSE IF "ingredients" \in DOMAIN data
           THEN IF data["ingredients"] = None
                THEN /\ last' = AnalyzeError(500, "ingredients")
                     /\ UNCHANGED inflight
                ELSE /\ Len(inflight) < MaxInflight
                     /\ inflight' = Append(inflight,
                            [kind |-> "ingredients", user_id |-> user_id,
                             analysis_type |-> Val(analysis_type),
                             ingredients |-> data["ingredients"]])
                     /\ UNCHANGED last
           ELSE /\ last' = AnalyzeError(500, "no response")
                /\ UNCHANGED inflight
    /\ UNCHANGED <<users, image_history, ingredient_history, calcVars, extVars>>

\* analyze_ai_raises for a handler that inserts its row before the AI call
analyze_ai_raises_RowInserted(i) ==
    /\ i \in DOMAIN inflight
    /\ Len(image_history) + Len(ingredient_history) < MaxHistory
    /\ inflight' = RemoveAt(inflight, i)
    /\ image_history' = Append(image_history,
           [user_id |-> inflight[i].user_id, analysis_type |-> inflight[i].analysis_type,
            result_text |-> <<>>, calories |-> 0])
    /\ last' = [op |-> "analyze", status |-> 500,
                error |-> "No se pudo obtener respuesta de la IA"]
    /\ UNCHANGED <<users, ingredient_history, calcVars, extVars>>

\* get_gemini_response raises; the handler answers 500
analyze_ai_raises(i) ==
    /\ i \in DOMAIN inflight
    /\ inflight' = RemoveAt(inflight, i)
    /\ last' = AnalyzeError(500, "No se pudo obtener respuesta de la IA")
    /\ UNCHANGED <<users, image_history, ingredient_history, calcVars, extVars>>

\* StoredCalories that extracts for every analysis type
StoredCalories_AlwaysExtract(kind, analysis_type, result_text) ==
    extract_total_calories(result_text)

\* the calories value the handler stores
StoredCalories(kind, analysis_type, result_text) ==
    IF kind = "image"
    THEN IF analysis_type = "nutritional_value"
         THEN extract_total_calories(result_text) ELSE 0
    ELSE extract_total_calories(result_text)

\* get_gemini_response returns result_text; calories, INSERT, commit, 200
analyze_complete(i, result_text) ==
    /\ i \in DOMAIN inflight
    /\ Len(image_history) + Len(ingredient_history) < MaxHistory
    /\ LET r == inflight[i]
           calories == StoredCalories(r.kind, r.analysis_type, result_text)
       IN  /\ IF r.kind = "image"
              THEN /\ image_history' = InsertHistory(image_history,
                          [user_id |-> r.user_id, analysis_type |-> r.analysis_type,
                           result_text |-> result_text, calories |-> calories])
                   /\ UNCHANGED ingredient_history
              ELSE /\ ingredient_history' = InsertHistory(ingredient_history,
                          [user_id |-> r.user_id, ingredients_text |-> Val(r.ingredients),
                           result_text |-> result_text, calories |-> calories])
                   /\ UNCHANGED image_history
           /\ last' = [op |-> "analyze", status |-> 200, result |-> result_text]
    /\ inflight' = RemoveAt(inflight, i)
    /\ UNCHANGED <<users, calcVars, extVars>>

-----------------------------------------------------------------------------
(* The server under the requests of the sets below *)

Emails == {"ana@x", "bo@x"}
Passwords == {"pw", "other"}

\* every dict over a subset of the keys of full
SubDicts(full) == {[k \in present |-> full[k]] : present \in SUBSET DOMAIN full}

RegisterRequests ==
    UNION { SubDicts([email |-> e, name |-> Some("Ana"), password |-> Some("pw")]) :
            e \in Nullable(Emails) }

LoginRequests == [email : {Some(e) : e \in Emails}, password : {Some(p) : p \in Passwords}]

UserIds == {Some(0), Some(1), Some(2)}

Patches ==
    { <<>>,
      [bogus |-> Some(1)],
      [weight |-> Some(70), height |-> Some(175)],
      [weight |-> Some(100), height |-> Some(200)],
      [height |-> Some(0)],
      [height |-> None],
      [age |-> Some(30), gender |-> Some(s_Masculino), activity_level |-> Some(s_moderado)],
      [email |-> Some("ana@x")],
      [email |-> Some("bo@x")],
      [email |-> None] }

\* a patch, with or without a userId
WithUserId(patch, user_id) ==
    [k \in DOMAIN patch \cup {"userId"} |-> IF k = "userId" THEN user_id ELSE patch[k]]

UpdateRequests == Patches \cup {WithUserId(p, u) : p \in Patches, u \in UserIds}

InitServer ==
    /\ ServerEmpty
    /\ CalcIdle
    /\ ExtIdle

NextProfile ==
    \/ \E data \in RegisterRequests : register(data)
    \/ \E data \in LoginRequests : login(data)
    \/ \E data \in UpdateRequests : update_profile(data)
    \/ \E user_id \in 1..3 : get_profile(user_id)

SpecProfile == InitServer /\ [][NextProfile]_vars

\* what get_gemini_response may return
AITexts == {t_total_450, t_no_mention}

AnalyzeRequests ==
    { [analysisType |-> Some("nutritional_value"), image |-> Some("img_ok")],
      [userId |-> Some(0), analysisType |-> Some("nutritional_value"), image |-> Some("img_ok")],
      [userId |-> Some(1), image |-> Some("img_ok")],
      [userId |-> Some(1), analysisType |-> Some("nutritional_value"), image |-> Some("img_ok")],
      [userId |-> Some(1), analysisType |-> Some("how_to_cook"), image |-> Some("img_ok"),
       ingredients |-> Some("arroz, pollo")],
      [userId |-> Some(1), analysisType |-> Some("how_to_cook"), image |-> Some("img_bad")],
      [userId |-> Some(1), analysisType |-> Some("recommend_recipe"),
       ingredients |-> Some("arroz, pollo")],
      [userId |-> Some(1), ingredients |-> Some("arroz, pollo")],
      [userId |-> Some(1), analysisType |-> Some("recommend_recipe")] }

Next ==
    \/ register([email |-> Some("ana@x"), name |-> Some("Ana"), password |-> Some("pw")])
    \/ login([email |-> Some("ana@x"), password |-> Some("pw")])
    \/ update_profile([userId |-> Some(1), weight |-> Some(70), height |-> Some(175)])
    \/ get_profile(1)
    \/ \E data \in AnalyzeRequests : analyze_request(data)
    \/ \E i \in 1..MaxInflight : analyze_ai_raises(i)
    \/ \E i \in 1..MaxInflight : \E t \in AITexts : analyze_complete(i, t)
    \/ get_history(1)

Spec == InitServer /\ [][Next]_vars

-----------------------------------------------------------------------------
(* Properties of calculate_profile_data, checked under SpecCalc *)

Missing(ud) == \E k \in ProfileKeys : k \notin DOMAIN ud \/ ud[k] = None

Computed == calc_pc = "done"

Returned == calc_pc = "done" /\ calc_result.exc = ""

\* two strings are equal up to the case of their letters
SameIgnoringCase(a, b) ==
    /\ Len(a) = Len(b)
    /\ \A i \in DOMAIN a :
          \/ a[i] = b[i]
          \/ \E n \in DOMAIN UpperChars : {a[i], b[i]} = {UpperChars[n], LowerChars[n]}

\* C1: calculate_profile_data returns the Incomplete result if and only if
\* one of the five fields is absent or null, and for every profile with all
\* five present it returns a result with non-null imc and tdee.
C1_IncompleteIffMissing ==
    Computed =>
        /\ (calc_result = Return(Incomplete)) <=> Missing(user_data)
        /\ ~Missing(user_data) =>
              /\ calc_result.exc = ""
              /\ calc_result.value.imc # None
              /\ calc_result.value.tdee # None

\* C2: whenever a BMI is returned for a complete profile, the label is the
\* one of the half-open interval the returned two-decimal BMI lies in:
\* below 18.5, [18.5, 25), [25, 30), 30 and above.
C2_CategoryByHalfOpenIntervals ==
    (Returned /\ ~Missing(user_data)) =>
        LET imc == Val(calc_result.value.imc)
            label == calc_result.value.imc_recommendation
        IN  /\ label \in {"Bajo peso", "Peso saludable", "Sobrepeso", "Obesidad"}
            /\ (label = "Bajo peso") <=> (imc < 1850)
            /\ (label = "Peso saludable") <=> (1850 <= imc /\ imc < 2500)
            /\ (label = "Sobrepeso") <=> (2500 <= imc /\ imc < 3000)
            /\ (label = "Obesidad") <=> (imc >= 3000)
            /\ imc = 1849 => label = "Bajo peso"
            /\ imc \in {1850, 2499} => label = "Peso saludable"
            /\ imc \in {2500, 2999} => label = "Sobrepeso"
            /\ imc = 3000 => label = "Obesidad"

\* a profile on each of the six boundary values named by C2 has been labelled
C2_Witness ==
    /\ Returned /\ ~Missing(user_data)
    /\ Val(calc_result.value.imc) = 1850
    /\ calc_result.value.imc_recommendation = "Peso saludable"

\* BMR x 4 and multiplier x 1000 as the claim states them
ClaimBmr4(ud) ==
    40 * Val(ud["weight"]) + 25 * Val(ud["height"]) - 20 * Val(ud["age"])
      + (IF SameIgnoringCase(Val(ud["gender"]), s_masculino) THEN 20 ELSE -644)

ClaimMultiplier(ud) ==
    LET a == Val(ud["activity_level"])
    IN  IF SameIgnoringCase(a, s_sedentario) THEN 1200
        ELSE IF SameIgnoringCase(a, s_ligero) THEN 1375
        ELSE IF SameIgnoringCase(a, s_moderado) THEN 1550
        ELSE IF SameIgnoringCase(a, s_activo) THEN 1725
        ELSE IF SameIgnoringCase(a, s_muy_activo) THEN 1900
        ELSE 1200

\* the returned tdee is an integer nearest to BMR x multiplier
TdeeIsNearest ==
    (Returned /\ ~Missing(user_data)) =>
        LET x == ClaimBmr4(user_data) * ClaimMultiplier(user_data)
            d == 4000 * Val(calc_result.value.tdee) - x
        IN  -2000 <= d /\ d <= 2000

ExampleMale ==
    [weight |-> Some(70), height |-> Some(175), age |-> Some(30),
     gender |-> Some(s_Masculino), activity_level |-> Some(s_moderado)]

ExampleFemale ==
    [weight |-> Some(70), height |-> Some(175), age |-> Some(30),
     gender |-> Some(s_Femenino), activity_level |-> Some(s_sedentario)]

\* C4 as stated: the returned tdee is BMR x multiplier rounded to the
\* nearest integer, the male example gives 2610 and the female one 1821.
C4_TdeeWithStatedExamples ==
    /\ TdeeIsNearest
    /\ (Computed /\ user_data = ExampleMale) => calc_result = Return([imc |-> Some(2286),
            tdee |-> Some(2610), imc_recommendation |-> "Peso saludable"])
    /\ (Computed /\ user_data = ExampleFemale) => calc_result = Return([imc |-> Some(2286),
            tdee |-> Some(1821), imc_recommendation |-> "Peso saludable"])

\* C4 (amended): the returned tdee is BMR x multiplier rounded to the nearest
\* integer, with the male constant +5 only for "masculino" in any case and
\* the multiplier 1.2 for every unrecognized activity level; the male
\* example gives 2556 and the female one 1779.
C4_TdeeNearestInteger ==
    /\ TdeeIsNearest
    /\ (Computed /\ user_data = ExampleMale) => calc_result = Return([imc |-> Some(2286),
            tdee |-> Some(2556), imc_recommendation |-> "Peso saludable"])
    /\ (Computed /\ user_data = ExampleFemale) => calc_result = Return([imc |-> Some(2286),
            tdee |-> Some(1779), imc_recommendation |-> "Peso saludable"])

\* the male example has been computed
C4_Witness ==
    /\ Computed /\ user_data = ExampleMale
    /\ calc_result.exc = "" /\ calc_result.value.tdee = Some(2556)

\* C5: calculate_profile_data raises no error, whether the profile is
\* complete or not.
C5_NoErrorRaised == Computed => calc_result.exc = ""

-----------------------------------------------------------------------------
(* Properties of extract_total_calories, checked under SpecExtract *)

\* the positions where the label, any whitespace and a digit follow each other
MatchStarts(t) ==
    { i \in 1..Len(t) :
        /\ i + Len(Label) <= Len(t)
        /\ SameIgnoringCase(SubSeq(t, i, i + Len(Label) - 1), Label)
        /\ \E j \in (i + Len(Label))..Len(t) :
              /\ \A m \in (i + Len(Label))..(j - 1) : IsSpace(t[m])
              /\ IsDigit(t[j]) }

\* the digit run that follows the label at position i, and its value
DigitRunAfter(t, i) ==
    LET j == CHOOSE j \in (i + Len(Label))..Len(t) :
                 /\ \A m \in (i + Len(Label))..(j - 1) : IsSpace(t[m])
                 /\ IsDigit(t[j])
        k == CHOOSE k \in j..Len(t) :
                 /\ \A m \in j..k : IsDigit(t[m])
                 /\ k = Len(t) \/ ~IsDigit(t[k + 1])
    IN  SubSeq(t, j, k)

RECURSIVE DecimalValue(_, _)
DecimalValue(d, acc) ==
    IF d = <<>> THEN acc ELSE DecimalValue(Tail(d), 10 * acc + DigitValue(Head(d)))

Leftmost(S) == CHOOSE i \in S : \A j \in S : i <= j

-----------------------------------------------------------------------------
(* Properties of the analysis history, checked under Spec *)

\* tbl2 is tbl1 with n rows added at the end
Extends(tbl1, tbl2, n) ==
    /\ Len(tbl2) = Len(tbl1) + n
    /\ SubSeq(tbl2, 1, Len(tbl1)) = tbl1

\* the step answers an analyze request with 200
AnalyzeSucceeds ==
    /\ Len(inflight') = Len(inflight) - 1
    /\ last'.op = "analyze"
    /\ last'.status = 200

\* the step answers an analyze request with 400 or 500
AnalyzeFails ==
    /\ last'.op = "analyze"
    /\ last'.status \in {400, 500}
    /\ last' # last \/ Len(inflight') = Len(inflight) - 1

\* the row the step inserted, when it inserted exactly one
NewImageRow == image_history'[Len(image_history')]
NewIngredientRow == ingredient_history'[Len(ingredient_history')]

\* C6 as stated: every successful analysis request, image-based with any
\* analysis type or ingredient-based, persists one row holding the AI result
\* text and calories equal to extract_total_calories of that text.
C6_CaloriesAlwaysExtracted ==
    [][AnalyzeSucceeds =>
         \/ /\ Extends(image_history, image_history', 1)
            /\ ingredient_history' = ingredient_history
            /\ NewImageRow.result_text = last'.result
            /\ NewImageRow.calories = extract_total_calories(last'.result)
         \/ /\ Extends(ingredient_history, ingredient_history', 1)
            /\ image_history' = image_history
            /\ NewIngredientRow.result_text = last'.result
            /\ NewIngredientRow.calories = extract_total_calories(last'.result)]_vars

\* C6 (amended): every successful analysis request persists one row holding
\* the AI result text; its calories are extract_total_calories of that text
\* for an ingredient-based request and for an image-based request of type
\* nutritional_value, and 0 for an image-based request of any other type.
C6_CaloriesExtractedForNutritionalValue ==
    [][AnalyzeSucceeds =>
         \/ /\ Extends(image_history, image_history', 1)
            /\ ingredient_history' = ingredient_history
            /\ NewImageRow.result_text = last'.result
            /\ NewImageRow.analysis_type = "nutritional_value"
                  => NewImageRow.calories = extract_total_calories(last'.result)
            /\ NewImageRow.analysis_type # "nutritional_value"
                  => NewImageRow.calories = 0
         \/ /\ Extends(ingredient_history, ingredient_history', 1)
            /\ image_history' = image_history
            /\ NewIngredientRow.result_text = last'.result
            /\ NewIngredientRow.calories = extract_total_calories(last'.result)]_vars

\* an image analysis of another type whose text states a total was stored
\* with 0 calories, next to a nutritional_value analysis stored with 450
C6_Witness ==
    /\ \E i \in DOMAIN image_history :
          /\ image_history[i].analysis_type = "how_to_cook"
          /\ image_history[i].result_text = t_total_450
          /\ image_history[i].calories = 0
    /\ \E i \in DOMAIN image_history :
          /\ image_history[i].analysis_type = "nutritional_value"
          /\ image_history[i].calories = 450

\* C7: a history row is never modified or removed, and the two tables grow
\* by exactly one row in a step that answers analyze with 200 and by none
\* in every other step.
C7_HistoryAppendOnly ==
    [][\E n, m \in 0..1 :
          /\ Extends(image_history, image_history', n)
          /\ Extends(ingredient_history, ingredient_history', m)
          /\ n + m = IF AnalyzeSucceeds THEN 1 ELSE 0]_vars

\* with rows in both tables, a profile update has been carried out
C7_Witness ==
    /\ Len(image_history) >= 1
    /\ Len(ingredient_history) >= 1
    /\ last.op = "update_profile"
    /\ last.status = 200

\* C10: a step that answers analyze with 400 or 500 leaves both history
\* tables unchanged, and a row is inserted only by the step in which the AI
\* call of a waiting request returns the text that the row holds.
C10_FailedAnalyzeLeavesHistory ==
    [][/\ AnalyzeFails =>
             /\ image_history' = image_history
             /\ ingredient_history' = ingredient_history
       /\ (image_history' # image_history \/ ingredient_history' # ingredient_history) =>
             /\ \E i \in DOMAIN inflight : inflight' = RemoveAt(inflight, i)
             /\ AnalyzeSucceeds
             /\ \/ image_history' # image_history /\ NewImageRow.result_text = last'.result
                \/ ingredient_history' # ingredient_history
                     /\ NewIngredientRow.result_text = last'.result]_vars

\* with a row stored, the AI call of a later request has failed
C10_Witness ==
    /\ Len(image_history) >= 1
    /\ last = AnalyzeError(500, "No se pudo obtener respuesta de la IA")

-----------------------------------------------------------------------------
(* Properties of the profile requests, checked under SpecProfile *)

\* the response of get_profile is made from the stored row of that user
ReadIsFresh ==
    (last.op = "get_profile" /\ last.status # 404) =>
        \E i \in DOMAIN users :
            /\ users[i]["id"] = Some(last.user_id)
            /\ LET health_data == calculate_profile_data(users[i])
               IN  IF health_data.exc = ""
                   THEN /\ last.status = 200
                        /\ last.body["imc"] = health_data.value.imc
                        /\ last.body["tdee"] = health_data.value.tdee
                        /\ last.body["imc_recommendation"] = health_data.value.imc_recommendation
                        /\ \A k \in ProfileKeys : last.body[k] = users[i][k]
                   ELSE last.status = 500
            /\ (Missing(users[i]) /\ last.status = 200) =>
                   /\ last.body["imc"] = None
                   /\ last.body["tdee"] = None
                   /\ last.body["imc_recommendation"] = "Completa tu perfil"

\* C8: get_profile answers with imc, tdee and imc_recommendation equal to
\* calculate_profile_data of the attributes stored for that user at the time
\* of the read (the Incomplete result while one of the five is null), and
\* leaves the users table unchanged.
C8_ProfileReadRecomputes ==
    /\ []ReadIsFresh
    /\ [][(last'.op = "get_profile" /\ last' # last) => users' = users]_vars

\* a complete profile has been read with its metrics after an update that
\* changed them
C8_Witness ==
    /\ last.op = "get_profile"
    /\ last.status = 200
    /\ last.body["weight"] = Some(100)
    /\ last.body["imc"] = Some(2500)
    /\ last.body["imc_recommendation"] = "Sobrepeso"

EmailsUnique == \A i, j \in DOMAIN users : users[i]["email"] = users[j]["email"] => i = j

\* the request carries email, name and password, and the email is registered
RegistersKnownEmail(req) ==
    /\ {"email", "name", "password"} \subseteq DOMAIN req
    /\ \E i \in DOMAIN users : users[i]["email"] = req["email"]

\* the request would give a stored user the email of another stored user
TakesEmailOfOther(req) ==
    /\ "email" \in DOMAIN req
    /\ "userId" \in DOMAIN req
    /\ \E i, j \in DOMAIN users :
          /\ i # j
          /\ users[i]["id"] = req["userId"]
          /\ users[j]["email"] = req["email"]

\* C9: no two user rows have the same email; registering a registered email
\* answers 409 and an update that would give a user the email of another
\* user answers an error, and both leave the users table unchanged.
C9_EmailsStayUnique ==
    /\ []EmailsUnique
    /\ [][/\ (last'.op = "register" /\ last' # last /\ RegistersKnownEmail(last'.req))
               => (last'.status = 409 /\ users' = users)
          /\ (last'.op = "update_profile" /\ last' # last /\ TakesEmailOfOther(last'.req))
               => (last'.status >= 400 /\ users' = users)]_vars

\* with two users stored, an update to the email of the other was refused
C9_Witness ==
    /\ Len(users) = 2
    /\ last.op = "update_profile"
    /\ last.status = 500
    /\ "email" \in DOMAIN last.req
    /\ \E i, j \in DOMAIN users :
          /\ i # j
          /\ users[i]["id"] = last.req["userId"]
          /\ users[j]["email"] = last.req["email"]

====
